---- MODULE Spec2Model ----
(***************************************************************************)
(* MedWatch: the alert evaluation and delivery-dedup engine.               *)
(*                                                                         *)
(* The batch runner exists in three deployment variants:                   *)
(*   "script"  - src/scripts/send-alerts.mjs, run                          *)
(*   "netlify" - src/netlify/functions/send-whatsapp.js, run               *)
(*   "edge"    - src/supabase/functions/send-alerts/index.ts, default      *)
(* and the in-app evaluator is src/src/App.jsx (computeAlerts,             *)
(* applyAutoDoses, computeWhatsappQueue, handleRegisterDose).              *)
(*                                                                         *)
(* Time is the UTC instant in seconds since 2024-03-01T00:00:00Z.  A time  *)
(* string "HH:MM" is the tuple <<HH, MM>>, a date string "YYYY-MM-DD" is   *)
(* the tuple <<YYYY, MM, DD>>, JavaScript null is the empty tuple.         *)
(***************************************************************************)
EXTENDS Integers, Sequences, FiniteSets, TLC

\* ---------------------------------------------------------------- constants

ALERT_WINDOW_MINUTES == 10

\* PAGE_SIZE (200, 200, 50) and MAX_SENDS_PER_RUN (50, 50, 10) are scaled down.
PAGE_SIZE == 2

MAX_SENDS_PER_RUN == 3

\* Bounds of the exploration.
MaxRuns == 2

MaxFaults == 1

MaxTimeouts == 1

MaxUserOps == 1

CountCap == 2

Null == <<>>

MedIds == {"m1", "m2", "m3"}

\* meds ordered by created_at descending
MedOrder == <<"m1", "m2", "m3">>

Max(a, b) == IF a >= b THEN a ELSE b

Min(a, b) == IF a <= b THEN a ELSE b

\* ---------------------------------------------------------------- time

At(day, h, m, s) == (((day - 1) * 24 + h) * 60 + m) * 60 + s

\* The instants at which something is observed, in increasing order.
Instants ==
  << At(1, 11, 0, 0), At(1, 11, 3, 0), At(1, 11, 7, 0), At(1, 11, 10, 0),
     At(1, 11, 10, 30), At(1, 11, 11, 0), At(1, 23, 58, 0), At(2, 0, 1, 0),
     At(2, 11, 3, 0) >>

\* new Intl.DateTimeFormat("en-US", { timeZone, ... }) throws a RangeError for a
\* time zone that is not an IANA identifier
ValidTimeZone(timeZone) == timeZone \in {"UTC", "America/Sao_Paulo"}

TzOffsetMinutes(timeZone) ==
  CASE timeZone = "America/Sao_Paulo" -> 0 - 180
    [] OTHER -> 0

\* Intl.DateTimeFormat(..., {timeZone}).formatToParts(date)
getZonedParts(date, timeZone) ==
  LET local == date + TzOffsetMinutes(timeZone) * 60
      secOfDay == local % 86400
  IN [ hour |-> secOfDay \div 3600,
       minute |-> (secOfDay % 3600) \div 60,
       dateString |-> <<2024, 3, (local \div 86400) + 1>> ]

\* A time string is the tuple of the numbers time.split(":").map(Number) yields:
\* "08:00" is <<8, 0>> and "8", which has no minutes, is <<8>>.
\* const [hours, minutes] = ...; hours * 60 + minutes is NaN when minutes is undefined
MinutesIsNaN(time) == Len(time) < 2

toMinutes(time) == time[1] * 60 + time[2]

buildAlertKey(dateString, time) == <<dateString, time>>

\* ---------------------------------------------------------------- addresses

\* An address is a string, kept as the sequence of its pieces: the word
\* "whatsapp", the colon, the plus sign, a digit.
PhoneAlphabet == {"whatsapp", ":", "+", "5"}

MaxPhoneLen == 4

MaxApplications == 2

Addresses == UNION { [1..n -> PhoneAlphabet] : n \in 0..MaxPhoneLen }

\* "whatsapp:"
ChannelPrefix == <<"whatsapp", ":">>

\* value.startsWith(prefix)
StartsWith(value, prefix) ==
  Len(value) >= Len(prefix) /\ SubSeq(value, 1, Len(prefix)) = prefix

\* a normalisation that prepends the prefix whatever the value
normalizePhoneAlways(value) == ChannelPrefix \o value

\* value.startsWith("whatsapp:") ? value : `whatsapp:${value}`
normalizePhone(value) ==
  IF StartsWith(value, ChannelPrefix) THEN value ELSE ChannelPrefix \o value

\* ---------------------------------------------------------------- batch runner

\* profile.timezone || "UTC"
ProfileTimeZone(profile) ==
  IF profile.timezone = "" THEN "UTC" ELSE profile.timezone

\* (profile.phone_numbers || []).filter((value) => value?.trim())
UsablePhones(profile) == SelectSeq(profile.phone_numbers, LAMBDA p : p \notin {"", " "})

\* An element of schedule_times is a time string or an object { time, pills }.
\* The object { time: "08:00", pills: 1 } is the tuple <<8, 0, 1>>: the numbers
\* of its time followed by its pills.
IsObject(entry) == Len(entry) = 3

\* normalizeScheduleTimes(med.schedule_times, med.dose_amount || 1) in the netlify
\* and edge runners: a string becomes { time: entry, pills: fallbackDose }, an
\* object { time, pills: Number(entry.pills ?? fallbackDose) }.  The script
\* iterates over med.schedule_times itself: `for (const time of ...)`, with
\* med.dose_amount as the amount.
ScheduleEntries(variant, med) ==
  [ i \in 1..Len(med.schedule_times) |->
      LET entry == med.schedule_times[i] IN
      IF IsObject(entry) /\ variant # "script"
      THEN [ time |-> <<entry[1], entry[2]>>, pills |-> entry[3] ]
      ELSE [ time |-> entry, pills |-> med.dose_amount ] ]

\* a window that goes on over midnight
IsDueWrapping(nowMinutes, time) ==
  IF MinutesIsNaN(time) THEN TRUE
  ELSE LET diffMinutes == (nowMinutes - toMinutes(time)) % 1440
       IN ~(diffMinutes < 0 \/ diffMinutes > ALERT_WINDOW_MINUTES)

\* a window that leaves its last minute out
IsDueStrict(nowMinutes, time) ==
  IF MinutesIsNaN(time) THEN TRUE
  ELSE LET diffMinutes == nowMinutes - toMinutes(time)
       IN ~(diffMinutes < 0 \/ diffMinutes >= ALERT_WINDOW_MINUTES)

\* diffMinutes < 0 || diffMinutes > ALERT_WINDOW_MINUTES -> continue
\* with diffMinutes NaN both comparisons are false and the entry is not skipped
IsDue(nowMinutes, time) ==
  IF MinutesIsNaN(time) THEN TRUE
  ELSE LET diffMinutes == nowMinutes - toMinutes(time)
       IN ~(diffMinutes < 0 \/ diffMinutes > ALERT_WINDOW_MINUTES)

\* a deduction without the clamp
DeductNoClamp(stock, doseAmount) == stock - doseAmount

\* Math.max(0, newStock - doseAmount)
Deduct(stock, doseAmount) == Max(0, stock - doseAmount)

\* The accumulator of one medication's evaluation.
\*   sent      sentCount                      attempts  send attempts so far
\*   failAt    the attempt the provider fails thrown    the evaluation raised
\*   typeError what was raised is the TypeError of toMinutes on an object
\*   log       the messages delivered, <<kind, key, phone>>
\*   due       the due keys, in schedule order
\*   reminded  the keys a reminder was emitted for
\*   deducted  the keys a deduction was made for, with the amount
InitAcc(med, sentCount, failAt) ==
  [ newLastWhatsAppKey |-> med.last_whatsapp_alert_key,
    newLastAutoDoseKey |-> med.last_auto_dose_key,
    newLastTaken |-> Null,
    newStock |-> med.stock,
    shouldUpdate |-> FALSE,
    sent |-> sentCount,
    attempts |-> 0,
    failAt |-> failAt,
    thrown |-> FALSE,
    typeError |-> FALSE,
    log |-> <<>>,
    due |-> <<>>,
    reminded |-> <<>>,
    deducted |-> <<>>,
    low |-> FALSE ]

RECURSIVE SendLoop(_, _, _, _, _)
\* for (const phone of phones) { await sendWhatsApp(phone, message);
\*   sentCount += 1; if (sentCount >= MAX_SENDS_PER_RUN) break; }
SendLoop(phones, j, acc, kind, key) ==
  IF j > Len(phones) THEN acc
  ELSE LET a == acc.attempts + 1 IN
       IF a = acc.failAt
       THEN [acc EXCEPT !.attempts = a, !.thrown = TRUE]
       ELSE LET acc1 == [acc EXCEPT !.attempts = a,
                                    !.sent = @ + 1,
                                    !.log = Append(@, <<kind, key, phones[j]>>)]
            IN IF acc1.sent >= MAX_SENDS_PER_RUN THEN acc1
               ELSE SendLoop(phones, j + 1, acc1, kind, key)

\* a batch that counts the sends it started
SendBatchCountsAll(phones, acc, kind, key) ==
  LET ok == { j \in 1..Len(phones) : acc.attempts + j # acc.failAt }
      okSeq == SelectSeq([j \in 1..Len(phones) |-> j], LAMBDA j : j \in ok)
  IN [acc EXCEPT !.attempts = @ + Len(phones),
                 !.sent = @ + Len(phones),
                 !.log = @ \o [i \in 1..Len(okSeq) |-> <<kind, key, phones[okSeq[i]]>>]]

\* sendWhatsAppBatch: one send per phone, Promise.allSettled, the number fulfilled
SendBatch(phones, acc, kind, key) ==
  LET ok == { j \in 1..Len(phones) : acc.attempts + j # acc.failAt }
      okSeq == SelectSeq([j \in 1..Len(phones) |-> j], LAMBDA j : j \in ok)
  IN [acc EXCEPT !.attempts = @ + Len(phones),
                 !.sent = @ + Cardinality(ok),
                 !.log = @ \o [i \in 1..Len(okSeq) |-> <<kind, key, phones[okSeq[i]]>>]]

Dispatch(variant, phones, acc, kind, key) ==
  IF variant = "edge" THEN SendBatch(phones, acc, kind, key)
  ELSE SendLoop(phones, 1, acc, kind, key)

\* The body of the loop over the schedule, for one entry.
EvalEntry(variant, med, phones, parts, now, entry, acc) ==
  LET nowMinutes == parts.hour * 60 + parts.minute
      alertKey == buildAlertKey(parts.dateString, entry.time)
  IN
  IF acc.thrown THEN acc
  ELSE IF IsObject(entry.time)
  THEN \* toMinutes(time): time.split is not a function
       [acc EXCEPT !.thrown = TRUE, !.typeError = TRUE]
  ELSE IF ~IsDue(nowMinutes, entry.time) THEN acc
  ELSE
    LET acc0 == [acc EXCEPT !.due = Append(@, alertKey)]
        acc1 == IF med.last_whatsapp_alert_key # alertKey
                THEN LET s == Dispatch(variant, phones, acc0, "dose", alertKey)
                     IN IF s.thrown THEN s
                        ELSE [s EXCEPT !.newLastWhatsAppKey = alertKey,
                                       !.shouldUpdate = TRUE,
                                       !.reminded = Append(@, alertKey)]
                ELSE acc0
    IN IF acc1.thrown THEN acc1
       ELSE IF med.auto_deduct /\ med.last_auto_dose_key # alertKey
            THEN [acc1 EXCEPT !.newStock = Deduct(@, entry.pills),
                              !.newLastTaken = <<now>>,
                              !.newLastAutoDoseKey = alertKey,
                              !.shouldUpdate = TRUE,
                              !.deducted = Append(@, <<alertKey, entry.pills>>)]
            ELSE acc1

RECURSIVE EvalEntries(_, _, _, _, _, _, _, _)
EvalEntries(variant, med, phones, parts, now, entries, i, acc) ==
  IF i > Len(entries) THEN acc
  ELSE EvalEntries(variant, med, phones, parts, now, entries, i + 1,
                   EvalEntry(variant, med, phones, parts, now, entries[i], acc))

\* a low-stock test that misses a stock equal to the threshold
LowStockBelow(med, parts) ==
  med.stock < med.low_threshold /\ med.last_low_stock_whatsapp_date # parts.dateString

\* med.stock <= med.low_threshold && med.last_low_stock_whatsapp_date !== parts.dateString
LowStockDue(med, parts) ==
  med.stock <= med.low_threshold /\ med.last_low_stock_whatsapp_date # parts.dateString

EvalLowStock(variant, med, phones, parts, acc) ==
  IF acc.thrown \/ ~LowStockDue(med, parts) THEN acc
  ELSE LET s == Dispatch(variant, phones, acc, "low", parts.dateString)
       IN IF s.thrown THEN s
          ELSE [s EXCEPT !.shouldUpdate = TRUE, !.low = TRUE]

\* One medication of the page, from the key bookkeeping to the low-stock send.
EvalMed(variant, med, profile, now, sentCount, failAt) ==
  LET phones == UsablePhones(profile)
      parts == getZonedParts(now, ProfileTimeZone(profile))
      entries == ScheduleEntries(variant, med)
      a1 == EvalEntries(variant, med, phones, parts, now, entries, 1,
                        InitAcc(med, sentCount, failAt))
  IN EvalLowStock(variant, med, phones, parts, a1)

\* an update that forgets last_auto_dose_key
UpdatePayloadNoAutoKey(med, parts, acc) ==
  [ cols |-> {"last_whatsapp_alert_key"}
             \cup (IF acc.newLastTaken # Null THEN {"last_taken", "stock"} ELSE {})
             \cup (IF LowStockDue(med, parts)
                   THEN {"last_low_stock_whatsapp_date"} ELSE {}),
    last_whatsapp_alert_key |-> acc.newLastWhatsAppKey,
    last_auto_dose_key |-> acc.newLastAutoDoseKey,
    last_taken |-> acc.newLastTaken,
    stock |-> acc.newStock,
    last_low_stock_whatsapp_date |-> parts.dateString ]

\* updatePayload, as the set of columns it carries and their values
UpdatePayload(med, parts, acc) ==
  [ cols |-> {"last_whatsapp_alert_key", "last_auto_dose_key"}
             \cup (IF acc.newLastTaken # Null THEN {"last_taken", "stock"} ELSE {})
             \cup (IF LowStockDue(med, parts)
                   THEN {"last_low_stock_whatsapp_date"} ELSE {}),
    last_whatsapp_alert_key |-> acc.newLastWhatsAppKey,
    last_auto_dose_key |-> acc.newLastAutoDoseKey,
    last_taken |-> acc.newLastTaken,
    stock |-> acc.newStock,
    last_low_stock_whatsapp_date |-> parts.dateString ]

\* PATCH /rest/v1/meds?id=eq.<id>: only the columns of the payload change
ApplyPatch(row, payload) ==
  [ f \in DOMAIN row |-> IF f \in payload.cols THEN payload[f] ELSE row[f] ]


\* ---------------------------------------------------------------- in-app evaluator

\* The browser's zone, which is also the zone stored in the profile (App.jsx 663).
BrowserTimeZone == "America/Sao_Paulo"

\* date.toISOString().slice(0, 10): the UTC date
getTodayString(date) == <<2024, 3, (date \div 86400) + 1>>

\* new Date(baseDate).setHours(hours, minutes, 0, 0): browser-local wall clock
parseTimeToDate(baseDate, time) ==
  LET off == TzOffsetMinutes(BrowserTimeZone) * 60
      local == baseDate + off
  IN (local - (local % 86400)) + time[1] * 3600 + time[2] * 60 - off

\* diffMinutes = (now - scheduledTime) / 60000, a real number of minutes;
\* diffMinutes >= 0 && diffMinutes <= ALERT_WINDOW_MINUTES
AppIsDue(now, time) ==
  LET diffSeconds == now - parseTimeToDate(now, time)
  IN diffSeconds >= 0 /\ diffSeconds <= ALERT_WINDOW_MINUTES * 60

RECURSIVE AlertsOfMed(_, _, _, _, _)
\* med.scheduleTimes.forEach(...) of computeAlerts
AlertsOfMed(med, now, i, lastAlertKey, due) ==
  IF i > Len(med.scheduleTimes) THEN [ lastAlertKey |-> lastAlertKey, due |-> due ]
  ELSE LET time == med.scheduleTimes[i]
           alertKey == buildAlertKey(getTodayString(now), time)
       IN IF AppIsDue(now, time) /\ lastAlertKey # alertKey
          THEN AlertsOfMed(med, now, i + 1, alertKey,
                 Append(due, [ medId |-> med.id, time |-> time,
                               doseAmount |-> med.doseAmount, alertKey |-> alertKey ]))
          ELSE AlertsOfMed(med, now, i + 1, lastAlertKey, due)

RECURSIVE Flatten(_, _)
Flatten(seqs, i) == IF i > Len(seqs) THEN <<>> ELSE seqs[i] \o Flatten(seqs, i + 1)

\* computeAlerts: [dueAlerts, changed, updatedMeds]; updatedMeds is null unless changed
computeAlerts(meds, now) ==
  LET per == [ i \in 1..Len(meds) |->
                 IF ~meds[i].alertsEnabled \/ Len(meds[i].scheduleTimes) = 0
                 THEN [ lastAlertKey |-> meds[i].lastAlertKey, due |-> <<>> ]
                 ELSE AlertsOfMed(meds[i], now, 1, meds[i].lastAlertKey, <<>>) ]
  IN [ dueAlerts |-> Flatten([ i \in 1..Len(meds) |-> per[i].due ], 1),
       changed |-> \E i \in 1..Len(meds) : per[i].lastAlertKey # meds[i].lastAlertKey,
       updatedMeds |-> [ i \in 1..Len(meds) |->
                           [meds[i] EXCEPT !.lastAlertKey = per[i].lastAlertKey] ] ]

AlertsFor(dueAlerts, medId) == SelectSeq(dueAlerts, LAMBDA a : a.medId = medId)

\* Math.max(0, stock - med.doseAmount) of applyAutoDoses
AppDeduct(stock, doseAmount) == Max(0, stock - doseAmount)

RECURSIVE AutoDosesOfMed(_, _, _, _, _)
\* alerts.forEach(...) of applyAutoDoses
AutoDosesOfMed(med, alerts, now, i, st) ==
  IF i > Len(alerts) THEN st
  ELSE IF alerts[i].alertKey # Null /\ alerts[i].alertKey # st.lastAutoDoseKey
       THEN AutoDosesOfMed(med, alerts, now, i + 1,
              [ stock |-> AppDeduct(st.stock, med.doseAmount),
                lastTaken |-> <<now>>,
                lastAutoDoseKey |-> alerts[i].alertKey,
                keys |-> Append(st.keys, alerts[i].alertKey) ])
       ELSE AutoDosesOfMed(med, alerts, now, i + 1, st)

\* applyAutoDoses: [called, updatedMeds, changedIds, keys]; called is FALSE for the
\* early return with updatedMeds null
applyAutoDoses(meds, dueAlerts, now) ==
  LET per == [ i \in 1..Len(meds) |->
                 LET med == meds[i]
                     st0 == [ stock |-> med.stock, lastTaken |-> med.lastTaken,
                              lastAutoDoseKey |-> med.lastAutoDoseKey, keys |-> <<>> ]
                 IN IF ~med.autoDeduct THEN st0
                    ELSE AutoDosesOfMed(med, AlertsFor(dueAlerts, med.id), now, 1, st0) ]
      updated == [ i \in 1..Len(meds) |->
                     [meds[i] EXCEPT !.stock = per[i].stock,
                                     !.lastTaken = per[i].lastTaken,
                                     !.lastAutoDoseKey = per[i].lastAutoDoseKey] ]
  IN [ called |-> Len(dueAlerts) > 0,
       updatedMeds |-> updated,
       changedIdx |-> { i \in 1..Len(meds) : updated[i] # meds[i] },
       keys |-> [ i \in 1..Len(meds) |-> per[i].keys ] ]

RECURSIVE QueueOfMed(_, _, _, _)
\* medAlerts.forEach(...) of computeWhatsappQueue
QueueOfMed(alerts, i, lastWhatsappAlertKey, queue) ==
  IF i > Len(alerts) THEN [ lastWhatsappAlertKey |-> lastWhatsappAlertKey, queue |-> queue ]
  ELSE IF alerts[i].alertKey # Null /\ alerts[i].alertKey # lastWhatsappAlertKey
       THEN QueueOfMed(alerts, i + 1, alerts[i].alertKey,
                       Append(queue, <<alerts[i].medId, "dose", alerts[i].alertKey>>))
       ELSE QueueOfMed(alerts, i + 1, lastWhatsappAlertKey, queue)

\* computeWhatsappQueue: [queue, changed, updatedMeds]
computeWhatsappQueue(meds, dueAlerts, now) ==
  LET today == getTodayString(now)
      per == [ i \in 1..Len(meds) |->
                 LET med == meds[i] IN
                 IF ~med.alertsEnabled
                 THEN [ key |-> med.lastWhatsappAlertKey,
                        date |-> med.lastLowStockWhatsappDate, queue |-> <<>> ]
                 ELSE LET q == QueueOfMed(AlertsFor(dueAlerts, med.id), 1,
                                          med.lastWhatsappAlertKey, <<>>)
                          low == med.stock <= med.lowThreshold
                                 /\ med.lastLowStockWhatsappDate # today
                      IN [ key |-> q.lastWhatsappAlertKey,
                           date |-> IF low THEN today ELSE med.lastLowStockWhatsappDate,
                           queue |-> IF low THEN Append(q.queue, <<med.id, "low", today>>)
                                     ELSE q.queue ] ]
  IN [ queue |-> Flatten([ i \in 1..Len(meds) |-> per[i].queue ], 1),
       changed |-> \E i \in 1..Len(meds) :
                      \/ per[i].key # meds[i].lastWhatsappAlertKey
                      \/ per[i].date # meds[i].lastLowStockWhatsappDate,
       updatedMeds |-> [ i \in 1..Len(meds) |->
                           [meds[i] EXCEPT !.lastWhatsappAlertKey = per[i].key,
                                           !.lastLowStockWhatsappDate = per[i].date] ] ]

\* toDbMed: the columns an app write carries (every column but id)
toDbMed(med, userId) ==
  [ user_id |-> userId,
    dose_amount |-> med.doseAmount,
    stock |-> med.stock,
    low_threshold |-> med.lowThreshold,
    schedule_times |-> med.scheduleTimes,
    alerts_enabled |-> med.alertsEnabled,
    auto_deduct |-> med.autoDeduct,
    last_taken |-> med.lastTaken,
    last_alert_key |-> med.lastAlertKey,
    last_auto_dose_key |-> med.lastAutoDoseKey,
    last_whatsapp_alert_key |-> med.lastWhatsappAlertKey,
    last_low_stock_whatsapp_date |-> med.lastLowStockWhatsappDate ]

\* { ...target, stock: newStock, lastTaken: nextTaken }: the columns in which the
\* payload of an operation differs from the medication it was made from
ChangedCols(target, updated) ==
  { f \in DOMAIN toDbMed(updated, "u1") :
      toDbMed(updated, "u1")[f] # toDbMed(target, "u1")[f] }

fromDbMed(row) ==
  [ id |-> row.id,
    doseAmount |-> row.dose_amount,
    stock |-> row.stock,
    lowThreshold |-> row.low_threshold,
    scheduleTimes |-> row.schedule_times,
    alertsEnabled |-> row.alerts_enabled,
    autoDeduct |-> row.auto_deduct,
    lastTaken |-> row.last_taken,
    lastAlertKey |-> row.last_alert_key,
    lastAutoDoseKey |-> row.last_auto_dose_key,
    lastWhatsappAlertKey |-> row.last_whatsapp_alert_key,
    lastLowStockWhatsappDate |-> row.last_low_stock_whatsapp_date ]

\* Math.max(0, target.stock - target.doseAmount) of handleRegisterDose
RegisterDeduct(stock, doseAmount) == Max(0, stock - doseAmount)

\* ---------------------------------------------------------------- state

VARIABLES
  cfg,            \* the deployment: batch variant, cloudEnabled, app settings
  profiles,       \* table profiles: user id -> row
  store,          \* table meds: med id -> row
  clock,          \* index in Instants of the present instant
  run,            \* the batch invocation in progress (or the last one)
  runs,           \* invocations started
  faults,         \* provider / storage failures so far
  timeouts,       \* invocations that ran out of their time budget so far
  meds,           \* App: the meds state (a list)
  tick,           \* App: the tick state
  effectDue,      \* App: a dependency of the evaluation effect changed
  userOps,        \* App: user operations so far
  writes,         \* App: updateMedInCloud calls in flight
  delivered,      \* messages delivered by the batch: <<med, kind, key, phone>> -> count
  lowEmitted,     \* low-stock notifications: <<evaluator, med, local date>> -> count
  deducts,        \* persisted batch deductions: <<med, key>> -> count
  advances,       \* persisted advances of last_auto_dose_key: <<med, key>> -> count
  notified,       \* App: notifications shown: <<med, key, local date>> -> count
  last,           \* the last evaluation of a medication by the batch runner
  hist,           \* med id -> summary of its latest batch evaluation
  skipped,        \* page rows left unevaluated when the last run stopped on a budget
  appLast,        \* App: the last pass of the evaluation effect
  http,           \* send-whatsapp function: the last request handled and its answer
  addr            \* an address on its way through normalizePhone

batchVars == << run, runs, faults, timeouts, delivered, lowEmitted, deducts,
                advances, last, hist, skipped >>

appVars == << meds, tick, effectDue, userOps, writes, notified, appLast >>

vars == << cfg, profiles, store, clock, run, runs, faults, timeouts, meds, tick,
           effectDue, userOps, writes, delivered, lowEmitted, deducts, advances,
           notified, last, hist, skipped, appLast, http, addr >>

BagAdd(bag, e) ==
  IF e \in DOMAIN bag THEN [bag EXCEPT ![e] = Min(CountCap, @ + 1)]
  ELSE bag @@ (e :> 1)

RECURSIVE BagAddAll(_, _, _)
BagAddAll(bag, es, i) ==
  IF i > Len(es) THEN bag ELSE BagAddAll(BagAdd(bag, es[i]), es, i + 1)

Count(bag, e) == IF e \in DOMAIN bag THEN bag[e] ELSE 0

MedRow(id, user, schedule, auto, stock, dose) ==
  [ id |-> id,
    user_id |-> user,
    dose_amount |-> dose,
    stock |-> stock,
    low_threshold |-> 5,
    schedule_times |-> schedule,
    alerts_enabled |-> TRUE,
    auto_deduct |-> auto,
    last_taken |-> Null,
    last_alert_key |-> Null,
    last_auto_dose_key |-> Null,
    last_whatsapp_alert_key |-> Null,
    last_low_stock_whatsapp_date |-> Null ]

ProfileRow(phones, tz) ==
  [ phone_numbers |-> phones, whatsapp_enabled |-> TRUE, timezone |-> tz ]

\* u1 lives in America/Sao_Paulo (UTC-3): 08:00 local is 11:00 UTC.  u2 has no
\* timezone stored and is evaluated in UTC.
StoreWith(m1) ==
  [ m1 |-> m1,
    m2 |-> MedRow("m2", "u2", << <<11, 0>>, <<11, 5>> >>, TRUE, 6, 1),
    m3 |-> MedRow("m3", "u2", << <<11, 0>> >>, FALSE, 9, 1) ]

M1Rows ==
  { MedRow("m1", "u1", << <<8, 0>> >>, a, k, 2) : a \in BOOLEAN, k \in {1, 6} }
  \cup { MedRow("m1", "u1", << <<8, 0>>, <<8, 5>> >>, TRUE, k, 2) : k \in {1, 6} }

M1Shared == MedRow("m1", "u1", << <<8, 0>> >>, TRUE, 1, 2)

\* the same medication with a stock above the low-stock threshold and a second
\* dose in the evening: schedule_times ["08:00", "20:55"]
M1Stocked == MedRow("m1", "u1", << <<8, 0>>, <<20, 55>> >>, TRUE, 6, 2)

\* schedule_times ["8", "08:00"]: the first entry has no minutes
M1Malformed == MedRow("m1", "u1", << <<8>>, <<8, 0>> >>, TRUE, 6, 2)

\* schedule_times ["20:55"]: the window of the entry spans 21:00 local, which is
\* midnight UTC
M1Evening == MedRow("m1", "u1", << <<20, 55>> >>, FALSE, 6, 2)

\* schedule_times ["08:00", "08:00"]: "Adicionar horário" used twice and both
\* entries set to the same time
M1Twice == MedRow("m1", "u1", << <<8, 0>>, <<8, 0>> >>, TRUE, 6, 2)

\* the medication of the two scenarios: schedule ["08:00"], dose 1, stock 5,
\* threshold 5, empty dedup fields, an owner (u3) with one address
ScenarioMed(auto) == MedRow("m1", "u3", << <<8, 0>> >>, auto, 5, 1)

InitProfiles ==
  [ u1 |-> ProfileRow(<<"p1", "", "p2">>, "America/Sao_Paulo"),
    u2 |-> ProfileRow(<<"p3">>, ""),
    u3 |-> ProfileRow(<<"p4">>, "America/Sao_Paulo") ]

\* the profile of u1 holds a timezone that is no IANA identifier
BadZoneProfiles == [InitProfiles EXCEPT !.u1.timezone = "Mars/Phobos"]

Cfg(variant, cloud, app, chaos, whatsapp) ==
  [ variant |-> variant,
    cloudEnabled |-> cloud,
    appOpen |-> app,
    chaos |-> chaos,
    notificationsEnabled |-> TRUE,
    whatsappEnabled |-> whatsapp,
    phoneNumbers |-> <<"p1", "", "">>,
    configured |-> TRUE,
    handler |-> "none" ]

\* profiles tables with which the medication of u1 is skipped: no row for u1, the
\* channel disabled, only blank addresses
SkipProfiles ==
  { [ u \in {"u2", "u3"} |-> InitProfiles[u] ],
    [InitProfiles EXCEPT !.u1.whatsapp_enabled = FALSE],
    [InitProfiles EXCEPT !.u1.phone_numbers = <<"", " ">>] }

\* schedule_times [{ time: "08:00", pills: 1 }]: a per-time amount of 1 on a
\* medication whose default dose is 2
M1Structured == MedRow("m1", "u1", << <<8, 0, 1>> >>, TRUE, 6, 2)

\* schedule_times []
M1Unscheduled == MedRow("m1", "u1", << >>, TRUE, 1, 2)

\* schedule_times ["23:55"] of an owner in UTC: the ten minutes after the entry
\* end after midnight
M1Midnight == MedRow("m1", "u2", << <<23, 55>> >>, FALSE, 6, 2)

\* a medication without schedule whose alerts the user had switched off
M1Paused ==
  [MedRow("m1", "u1", << >>, FALSE, 6, 2) EXCEPT !.alerts_enabled = FALSE]

\* handleToggleAlert on that medication: the PATCH that switches its alerts on
\* again, sent before the browser was closed and not yet applied by the store
ResumeWrite ==
  LET target == fromDbMed(M1Paused)
      updated == [target EXCEPT !.alertsEnabled = ~target.alertsEnabled]
  IN [ id |-> target.id, row |-> toDbMed(updated, "u1"),
       cols |-> ChangedCols(target, updated) ]

\* a deployment of the batch runner whose environment lacks a required credential
Unconfigured(variant) ==
  [Cfg(variant, TRUE, FALSE, FALSE, TRUE) EXCEPT !.configured = FALSE]

IdleRun ==
  [ pc |-> "idle", now |-> 0, offset |-> 0, sentCount |-> 0, page |-> <<>>,
    idx |-> 1, attempts |-> 0, stop |-> "none", overtime |-> FALSE ]

NoEval == [ run |-> 0 ]

NoPass == [ pass |-> FALSE ]

\* no request handled yet
NoRequest == [ handled |-> FALSE ]

\* a deployment of the send-whatsapp function alone: the Twilio version
\* (netlify/functions/send-whatsapp.js) or the Graph API version
Function(version) ==
  [Cfg("script", FALSE, FALSE, FALSE, FALSE) EXCEPT !.handler = version]

\* Three kinds of deployment: the batch runner alone (the browser is closed), the
\* app alone on its local storage (no cloud store, hence no batch runner), and
\* both on the same cloud store.
Deployment ==
  /\ \/ /\ cfg \in { Cfg(v, TRUE, FALSE, TRUE, TRUE) : v \in {"script", "edge"} }
        /\ \/ /\ profiles = InitProfiles
              /\ store \in { StoreWith(r) : r \in M1Rows \cup {M1Malformed, M1Twice}
                                               \cup { ScenarioMed(a) : a \in BOOLEAN } }
           \/ /\ profiles = BadZoneProfiles
              /\ store = StoreWith(M1Shared)
        /\ meds = <<>>
     \/ /\ cfg \in { Cfg(v, TRUE, FALSE, FALSE, TRUE) : v \in {"script", "edge", "netlify"} }
        /\ \/ /\ profiles \in SkipProfiles
              /\ store = StoreWith(M1Shared)
           \/ /\ profiles = InitProfiles
              /\ store \in { StoreWith(M1Unscheduled), StoreWith(M1Structured),
                           StoreWith(M1Midnight) }
        /\ meds = <<>>
     \/ /\ cfg \in { Unconfigured(v) : v \in {"script", "edge", "netlify"} }
        /\ profiles = InitProfiles
        /\ store = StoreWith(M1Shared)
        /\ meds = <<>>
     \/ /\ cfg \in { Function(v) : v \in {"twilio", "graph"} }
        /\ profiles = InitProfiles
        /\ store = StoreWith(M1Shared)
        /\ meds = <<>>
     \/ /\ cfg = Cfg("netlify", TRUE, FALSE, TRUE, TRUE)
        /\ profiles = InitProfiles
        /\ store = StoreWith(MedRow("m1", "u1", << <<8, 0>>, <<8, 5>> >>, TRUE, 6, 2))
        /\ meds = <<>>
     \/ /\ cfg \in { Cfg("script", FALSE, TRUE, FALSE, w) : w \in BOOLEAN }
        /\ profiles = InitProfiles
        /\ store = StoreWith(M1Shared)
        /\ meds \in { << fromDbMed(r) >> : r \in M1Rows \cup {M1Evening, M1Unscheduled} }
     \/ /\ cfg = Cfg("netlify", TRUE, TRUE, FALSE, TRUE)
        /\ profiles = InitProfiles
        /\ store = StoreWith(M1Stocked)
        /\ meds = << fromDbMed(store.m1) >>
     \/ /\ cfg = Cfg("edge", TRUE, FALSE, TRUE, TRUE)
        /\ profiles = InitProfiles
        /\ store = StoreWith(M1Paused)
        /\ meds = <<>>
  /\ clock = 1
  /\ run = IdleRun
  /\ runs = 0
  /\ faults = 0
  /\ timeouts = 0
  /\ tick = Instants[1]
  /\ effectDue = cfg.appOpen
  /\ userOps = 0
  /\ writes = IF store["m1"] = M1Paused THEN << ResumeWrite >> ELSE << >>
  /\ delivered = << >>
  /\ lowEmitted = << >>
  /\ deducts = << >>
  /\ advances = << >>
  /\ notified = << >>
  /\ last = NoEval
  /\ hist = [ m \in MedIds |-> NoEval ]
  /\ skipped = [ run |-> 0, stop |-> "none", rows |-> << >> ]
  /\ appLast = NoPass
  /\ http = NoRequest

\* no address is being normalised
NoPhone == [ applied |-> 0 ]

Init ==
  /\ Deployment
  /\ addr = NoPhone

\* ---------------------------------------------------------------- batch actions

\* The open app has seen the present instant: its interval fired (unless it fires
\* within the minute, at the next instant), and its effect ran until it changed
\* nothing or began to repeat itself.
AppSettled ==
  /\ \/ Instants[clock] - tick < 60
     \/ clock < Len(Instants) /\ Instants[clock + 1] - Instants[clock] < 60
  /\ \/ ~effectDue
     \/ appLast.pass /\ appLast.now = tick /\ appLast.before = meds

NoRunInProgress == run.pc \in {"idle", "done", "failed"}

\* time passes (an invocation lasts seconds: it begins and ends at one instant,
\* and a write the app has issued reaches the store before the next instant)
Tick ==
  /\ clock < Len(Instants)
  /\ NoRunInProgress
  /\ runs < MaxRuns \/ cfg.appOpen
  /\ cfg.appOpen => AppSettled
  /\ Len(writes) = 0
  /\ clock' = clock + 1
  /\ UNCHANGED << cfg, http, addr, profiles, store, batchVars, appVars >>

\* an invocation that begins without looking at the credentials
StartRunUnchecked ==
  /\ cfg.cloudEnabled
  /\ NoRunInProgress
  /\ runs < MaxRuns
  /\ run' = [IdleRun EXCEPT !.pc = "paging", !.now = Instants[clock]]
  /\ runs' = runs + 1
  /\ UNCHANGED << cfg, http, addr, profiles, store, clock, faults, timeouts, delivered,
                  lowEmitted, deducts, advances, last, hist, skipped, appVars >>

\* if (!supabaseUrl || !serviceRoleKey) throw / return jsonResponse(500, ...), the
\* same for the messaging credentials; then
\* const now = new Date(); let offset = 0; let sentCount = 0;
StartRun ==
  /\ cfg.cloudEnabled
  /\ NoRunInProgress
  /\ runs < MaxRuns
  /\ run' = IF cfg.configured
            THEN [IdleRun EXCEPT !.pc = "paging", !.now = Instants[clock]]
            ELSE [IdleRun EXCEPT !.pc = "failed", !.stop = "config"]
  /\ runs' = runs + 1
  /\ UNCHANGED << cfg, http, addr, profiles, store, clock, faults, timeouts, delivered,
                  lowEmitted, deducts, advances, last, hist, skipped, appVars >>

\* .eq("alerts_enabled", true).order("created_at", desc).range(offset, offset + PAGE_SIZE - 1)
fetchMedsPage(offset) ==
  LET rows == SelectSeq(MedOrder, LAMBDA id : store[id].alerts_enabled)
  IN [ i \in 1..Max(0, Min(PAGE_SIZE, Len(rows) - offset)) |-> store[rows[offset + i]] ]

\* the head of the while loop and the page fetch
FetchPage ==
  /\ run.pc = "paging"
  /\ \/ \* the send cap ends the loop
        /\ run.sentCount >= MAX_SENDS_PER_RUN
        /\ run' = [run EXCEPT !.pc = "done", !.stop = "cap"]
        /\ UNCHANGED << faults, timeouts >>
     \/ \* edge: Date.now() - startTime > MAX_DURATION_MS
        /\ cfg.variant = "edge"
        /\ cfg.chaos /\ timeouts < MaxTimeouts
        /\ timeouts' = timeouts + 1
        /\ run' = [run EXCEPT !.pc = "done", !.stop = "time"]
        /\ UNCHANGED faults
     \/ \* the fetch fails
        /\ run.sentCount < MAX_SENDS_PER_RUN
        /\ cfg.chaos /\ faults < MaxFaults
        /\ faults' = faults + 1
        /\ run' = [run EXCEPT !.pc = "failed", !.stop = "fetch"]
        /\ UNCHANGED timeouts
     \/ /\ run.sentCount < MAX_SENDS_PER_RUN
        /\ LET page == fetchMedsPage(run.offset) IN
           run' = IF Len(page) = 0
                  THEN [run EXCEPT !.pc = "done", !.stop = "end", !.page = <<>>]
                  ELSE [run EXCEPT !.pc = "evaluating", !.page = page, !.idx = 1]
        /\ UNCHANGED << faults, timeouts >>
  /\ UNCHANGED << cfg, http, addr, profiles, store, clock, runs, delivered, lowEmitted,
                  deducts, advances, last, hist, skipped, appVars >>

\* page rows from index `from` on: not evaluated by this run
Unevaluated(r, from) == { r.page[i].id : i \in from..Len(r.page) }

\* a skip test that lets an owner without usable address through
SkipsMedWithPhones(med) ==
  IF med.user_id \notin DOMAIN profiles THEN TRUE
  ELSE \/ profiles[med.user_id].whatsapp_enabled = FALSE
       \/ Len(med.schedule_times) = 0

\* if (!profile || profile.whatsapp_enabled === false) continue;
\* if (!phones.length) continue;  if (!med.schedule_times?.length) continue;
SkipsMed(med) ==
  IF med.user_id \notin DOMAIN profiles THEN TRUE
  ELSE \/ profiles[med.user_id].whatsapp_enabled = FALSE
       \/ Len(UsablePhones(profiles[med.user_id])) = 0
       \/ Len(med.schedule_times) = 0

FailPositions == 2

\* what is remembered of one evaluation
Summary(med, acc, persisted, updateFailed, rowAfter) ==
  [ run |-> runs,
    med |-> med.id,
    now |-> run.now,
    rowBefore |-> med,
    rowAfter |-> rowAfter,
    attempts |-> acc.attempts,
    due |-> acc.due,
    reminded |-> acc.reminded,
    deducted |-> acc.deducted,
    low |-> acc.low,
    thrown |-> acc.thrown,
    typeError |-> acc.typeError,
    persisted |-> persisted,
    updateFailed |-> updateFailed,
    sentBefore |-> run.sentCount,
    overtime |-> run.overtime,
    prev |-> hist[med.id] ]

\* a PATCH that loses its id filter rewrites every row
updateMedAllRows(id, payload) ==
  [ m \in DOMAIN store |-> ApplyPatch(store[m], payload) ]

\* updateMed(id, payload): PATCH /rest/v1/meds?id=eq.<id>
updateMed(id, payload) ==
  [store EXCEPT ![id] = ApplyPatch(@, payload)]

\* what a stopped run remembers of the page rows it did not evaluate
Skipped(r, from, why) ==
  [ run |-> runs, stop |-> why,
    rows |-> [ m \in Unevaluated(r, from) |-> store[m] ] ]

\* for (const med of page): a row of the page is left
EvaluateMedEnabled == run.pc = "evaluating" /\ run.idx <= Len(run.page)

\* one iteration of the loop over the page
EvaluateMed ==
  /\ run.pc = "evaluating"
  /\ run.idx <= Len(run.page)
  /\ LET med == run.page[run.idx] IN
     \/ \* edge: if (Date.now() - startTime > MAX_DURATION_MS) { done = true; break; }
        /\ cfg.variant = "edge"
        /\ cfg.chaos /\ timeouts < MaxTimeouts
        /\ timeouts' = timeouts + 1
        /\ run' = [run EXCEPT !.pc = "done", !.stop = "time"]
        /\ skipped' = Skipped(run, run.idx, "time")
        /\ UNCHANGED << store, faults, delivered, lowEmitted, deducts, advances,
                        last, hist >>
     \/ \* edge: if (sentCount >= MAX_SENDS_PER_RUN) { done = true; break; }
        /\ cfg.variant = "edge"
        /\ run.sentCount >= MAX_SENDS_PER_RUN
        /\ run' = [run EXCEPT !.pc = "done", !.stop = "cap"]
        /\ skipped' = Skipped(run, run.idx, "cap")
        /\ UNCHANGED << store, faults, timeouts, delivered, lowEmitted, deducts,
                        advances, last, hist >>
     \/ \* continue
        /\ cfg.variant = "edge" => run.sentCount < MAX_SENDS_PER_RUN
        /\ SkipsMed(med)
        /\ run' = [run EXCEPT !.idx = @ + 1]
        /\ UNCHANGED << store, faults, timeouts, delivered, lowEmitted, deducts,
                        advances, last, hist, skipped >>
     \/ \* getZonedParts(now, timeZone) throws: the invocation ends in failure
        /\ cfg.variant = "edge" => run.sentCount < MAX_SENDS_PER_RUN
        /\ ~SkipsMed(med)
        /\ ~ValidTimeZone(ProfileTimeZone(profiles[med.user_id]))
        /\ run' = [run EXCEPT !.pc = "failed", !.stop = "timezone"]
        /\ UNCHANGED << store, faults, timeouts, delivered, lowEmitted, deducts,
                        advances, last, hist, skipped >>
     \/ /\ cfg.variant = "edge" => run.sentCount < MAX_SENDS_PER_RUN
        /\ ~SkipsMed(med)
        /\ ValidTimeZone(ProfileTimeZone(profiles[med.user_id]))
        /\ \E failAt \in 0..FailPositions, updateOk \in BOOLEAN :
           \E acc \in { EvalMed(cfg.variant, med, profiles[med.user_id], run.now,
                                run.sentCount, failAt) } :
             LET profile == profiles[med.user_id]
                 parts == getZonedParts(run.now, ProfileTimeZone(profile))
                 sendFailed == failAt \in 1..acc.attempts
                 writing == ~acc.thrown /\ acc.shouldUpdate
                 persisted == writing /\ updateOk
                 storeAfter == IF persisted
                               THEN updateMed(med.id, UpdatePayload(med, parts, acc))
                               ELSE store
                 rowAfter == storeAfter[med.id]
                 nFaults == (IF sendFailed THEN 1 ELSE 0)
                            + (IF writing /\ ~updateOk THEN 1 ELSE 0)
                 capped == cfg.variant # "edge" /\ acc.sent >= MAX_SENDS_PER_RUN
                 run1 == [run EXCEPT !.sentCount = acc.sent,
                                     !.attempts = @ + acc.attempts]
             IN
             /\ failAt > 0 => sendFailed
             /\ ~updateOk => writing
             /\ nFaults > 0 => cfg.chaos
             /\ faults + nFaults <= MaxFaults
             /\ faults' = faults + nFaults
             /\ store' = storeAfter
             /\ delivered' = BagAddAll(delivered,
                                [ i \in 1..Len(acc.log) |-> <<med.id>> \o acc.log[i] ], 1)
             /\ lowEmitted' = IF \E i \in 1..Len(acc.log) : acc.log[i][1] = "low"
                              THEN BagAdd(lowEmitted, <<"batch", med.id, parts.dateString>>)
                              ELSE lowEmitted
             /\ deducts' = IF persisted
                           THEN BagAddAll(deducts,
                                  [ i \in 1..Len(acc.deducted) |->
                                      <<med.id, acc.deducted[i][1]>> ], 1)
                           ELSE deducts
             /\ advances' = IF persisted
                               /\ rowAfter.last_auto_dose_key # store[med.id].last_auto_dose_key
                            THEN BagAdd(advances, <<med.id, rowAfter.last_auto_dose_key>>)
                            ELSE advances
             /\ last' = Summary(med, acc, persisted, writing /\ ~updateOk, rowAfter)
             /\ hist' = [hist EXCEPT ![med.id] =
                           [ run |-> runs, now |-> run.now,
                             clean |-> ~sendFailed /\ (writing => updateOk),
                             rowAfter |-> rowAfter ]]
             /\ IF acc.thrown
                THEN /\ run' = [run1 EXCEPT !.pc = "failed",
                                            !.stop = IF acc.typeError THEN "schedule"
                                                     ELSE "send"]
                     /\ UNCHANGED skipped
                ELSE IF writing /\ ~updateOk /\ cfg.variant # "edge"
                THEN /\ run' = [run1 EXCEPT !.pc = "failed", !.stop = "update"]
                     /\ UNCHANGED skipped
                ELSE IF capped
                THEN /\ run' = [run1 EXCEPT !.pc = "done", !.stop = "cap", !.idx = @ + 1]
                     /\ skipped' = Skipped(run, run.idx + 1, "cap")
                ELSE /\ run' = [run1 EXCEPT !.idx = @ + 1]
                     /\ UNCHANGED skipped
        /\ UNCHANGED timeouts
  /\ UNCHANGED << cfg, http, addr, profiles, clock, runs, appVars >>

\* The time budget of the invocation runs out while a page is being worked on.
\* The script and the netlify runner keep no start time and look at no clock; in
\* the edge runner the budget is looked at where it is checked (FetchPage,
\* EvaluateMed).
BudgetElapses ==
  /\ cfg.variant # "edge"
  /\ cfg.chaos /\ timeouts < MaxTimeouts
  /\ run.pc = "evaluating"
  /\ run.idx <= Len(run.page)
  /\ ~run.overtime
  /\ run' = [run EXCEPT !.overtime = TRUE]
  /\ timeouts' = timeouts + 1
  /\ UNCHANGED << cfg, http, addr, profiles, store, clock, runs, faults, delivered, lowEmitted,
                  deducts, advances, last, hist, skipped, appVars >>

\* a loop that forgets to advance the offset after a full page
EndPageSameOffset ==
  /\ run.pc = "evaluating"
  /\ run.idx > Len(run.page)
  /\ run' = IF Len(run.page) < PAGE_SIZE
            THEN [run EXCEPT !.pc = "done", !.stop = "end"]
            ELSE [run EXCEPT !.pc = "paging"]
  /\ UNCHANGED << cfg, http, addr, profiles, store, clock, runs, faults, timeouts, delivered,
                  lowEmitted, deducts, advances, last, hist, skipped, appVars >>

\* a loop that asks for the next page after a short page too
EndPageAlwaysNext ==
  /\ run.pc = "evaluating"
  /\ run.idx > Len(run.page)
  /\ run' = [run EXCEPT !.pc = "paging", !.offset = @ + PAGE_SIZE]
  /\ UNCHANGED << cfg, http, addr, profiles, store, clock, runs, faults, timeouts, delivered,
                  lowEmitted, deducts, advances, last, hist, skipped, appVars >>

\* if (page.length < PAGE_SIZE) break; offset += PAGE_SIZE;
EndPage ==
  /\ run.pc = "evaluating"
  /\ run.idx > Len(run.page)
  /\ run' = IF Len(run.page) < PAGE_SIZE
            THEN [run EXCEPT !.pc = "done", !.stop = "end"]
            ELSE [run EXCEPT !.pc = "paging", !.offset = @ + PAGE_SIZE]
  /\ UNCHANGED << cfg, http, addr, profiles, store, clock, runs, faults, timeouts, delivered,
                  lowEmitted, deducts, advances, last, hist, skipped, appVars >>

\* ---------------------------------------------------------------- app actions

\* setInterval(() => setTick(Date.now()), 60000)
AppTick ==
  /\ cfg.appOpen
  /\ NoRunInProgress
  /\ Instants[clock] - tick >= 60
  /\ tick' = Instants[clock]
  /\ effectDue' = TRUE
  /\ UNCHANGED << cfg, http, addr, profiles, store, clock, batchVars, meds, userOps, writes,
                  notified, appLast >>

\* the <<med index, entry index>> pairs that pass the window test of computeAlerts
PassedWindow(ms, now) ==
  { p \in UNION { { <<i, j>> : j \in 1..Len(ms[i].scheduleTimes) } : i \in 1..Len(ms) } :
      ms[p[1]].alertsEnabled /\ AppIsDue(now, ms[p[1]].scheduleTimes[p[2]]) }

\* the evaluation effect, useEffect(..., [meds, tick, ...])
AppEffect ==
  /\ cfg.appOpen
  /\ NoRunInProgress
  /\ effectDue
  /\ LET now == tick
         ca == computeAlerts(meds, now)
         baseMeds == IF ca.changed THEN ca.updatedMeds ELSE meds
         hasDue == Len(ca.dueAlerts) > 0
         auto == applyAutoDoses(baseMeds, ca.dueAlerts, now)
         afterAuto == IF hasDue THEN auto.updatedMeds ELSE baseMeds
         activePhoneNumbers == SelectSeq(cfg.phoneNumbers, LAMBDA p : p # "")
         local == ~cfg.cloudEnabled /\ cfg.whatsappEnabled
                  /\ Len(activePhoneNumbers) > 0
         wq == computeWhatsappQueue(baseMeds, ca.dueAlerts, now)
         final == IF local /\ wq.changed THEN wq.updatedMeds
                  ELSE IF local /\ ca.changed THEN ca.updatedMeds
                  ELSE afterAuto
         changedSeq == SelectSeq([ i \in 1..Len(meds) |-> i ],
                                 LAMBDA i : i \in auto.changedIdx)
         today == getZonedParts(now, BrowserTimeZone).dateString
         queue == IF local THEN wq.queue ELSE <<>>
         lows == SelectSeq(queue, LAMBDA q : q[2] = "low")
     IN
     /\ meds' = final
     /\ effectDue' = (hasDue \/ ca.changed \/ (local /\ wq.changed))
     /\ writes' = IF cfg.cloudEnabled /\ hasDue
                  THEN writes \o [ j \in 1..Len(changedSeq) |->
                                     [ id |-> auto.updatedMeds[changedSeq[j]].id,
                                       row |-> toDbMed(auto.updatedMeds[changedSeq[j]], "u1"),
                                       cols |-> ChangedCols(meds[changedSeq[j]],
                                                  auto.updatedMeds[changedSeq[j]]) ] ]
                  ELSE writes
     /\ notified' = IF cfg.notificationsEnabled
                    THEN BagAddAll(notified,
                           [ j \in 1..Len(ca.dueAlerts) |->
                               <<ca.dueAlerts[j].medId, ca.dueAlerts[j].alertKey, today>> ], 1)
                    ELSE notified
     /\ lowEmitted' = BagAddAll(lowEmitted,
                        [ j \in 1..Len(lows) |-> <<"app", lows[j][1], today>> ], 1)
     /\ appLast' = [ pass |-> TRUE,
                     now |-> now,
                     before |-> meds,
                     after |-> final,
                     autoMeds |-> afterAuto,
                     windowDue |-> PassedWindow(meds, now),
                     alerts |-> ca.dueAlerts,
                     autoKeys |-> IF hasDue THEN auto.keys ELSE [ i \in 1..Len(meds) |-> <<>> ],
                     outbound |-> local,
                     queue |-> queue ]
  /\ UNCHANGED << cfg, http, addr, profiles, store, clock, run, runs, faults, timeouts, delivered,
                  deducts, advances, last, hist, skipped, tick, userOps >>

\* handleRegisterDose(medId)
AppRegisterDose ==
  /\ cfg.appOpen
  /\ NoRunInProgress
  /\ userOps < MaxUserOps
  /\ \E i \in 1..Len(meds) :
       LET target == meds[i]
           newStock == RegisterDeduct(target.stock, target.doseAmount)
           nextTaken == << Instants[clock] >>
           updated == [target EXCEPT !.stock = newStock, !.lastTaken = nextTaken]
       IN /\ meds' = [meds EXCEPT ![i] = updated]
          /\ writes' = IF cfg.cloudEnabled
                       THEN Append(writes, [ id |-> target.id, row |-> toDbMed(updated, "u1"),
                                              cols |-> ChangedCols(target, updated) ])
                       ELSE writes
  /\ userOps' = userOps + 1
  /\ effectDue' = TRUE
  /\ UNCHANGED << cfg, http, addr, profiles, store, clock, batchVars, tick, notified, appLast >>

\* handleToggleAlert(medId)
AppToggleAlert ==
  /\ cfg.appOpen
  /\ NoRunInProgress
  /\ userOps < MaxUserOps
  /\ \E i \in 1..Len(meds) :
       LET target == meds[i]
           updated == [target EXCEPT !.alertsEnabled = ~target.alertsEnabled]
       IN /\ meds' = [meds EXCEPT ![i] = updated]
          /\ writes' = IF cfg.cloudEnabled
                       THEN Append(writes, [ id |-> target.id, row |-> toDbMed(updated, "u1"),
                                              cols |-> ChangedCols(target, updated) ])
                       ELSE writes
  /\ userOps' = userOps + 1
  /\ effectDue' = TRUE
  /\ UNCHANGED << cfg, http, addr, profiles, store, clock, batchVars, tick, notified, appLast >>

\* toDbUser(user, userId, username, whatsappEnabled, timezone): the profile columns
\* an app write carries; user is the profile as the app loaded it
toDbUser(user, whatsappEnabled, timezone) ==
  [ phone_numbers |-> user.phone_numbers,
    whatsapp_enabled |-> whatsappEnabled,
    timezone |-> timezone ]

\* handleToggleWhatsapp(): setWhatsappEnabled(!whatsappEnabled) and, in cloud mode,
\* the update of the profile row
AppToggleWhatsapp ==
  /\ cfg.appOpen
  /\ userOps < MaxUserOps
  /\ LET nextValue == ~cfg.whatsappEnabled IN
     /\ cfg' = [cfg EXCEPT !.whatsappEnabled = nextValue]
     /\ profiles' = IF cfg.cloudEnabled
                    THEN [profiles EXCEPT !.u1 =
                            toDbUser(profiles.u1, nextValue,
                                     IF profiles.u1.timezone = "" THEN "UTC"
                                     ELSE profiles.u1.timezone)]
                    ELSE profiles
  /\ userOps' = userOps + 1
  /\ effectDue' = TRUE
  /\ UNCHANGED << http, addr, store, clock, batchVars, meds, tick, writes, notified, appLast >>

\* supabase.from("meds").update(toDbMed(...)).eq("id", medId) reaches the store
CloudWrite ==
  /\ Len(writes) > 0
  /\ run.pc # "paging"
  /\ LET w == Head(writes) IN
     store' = [store EXCEPT ![w.id] =
                 [ f \in DOMAIN store[w.id] |->
                     IF f \in DOMAIN w.row THEN w.row[f] ELSE store[w.id][f] ]]
  /\ writes' = Tail(writes)
  /\ UNCHANGED << cfg, http, addr, profiles, clock, batchVars, meds, tick, effectDue, userOps,
                  notified, appLast >>

\* ---------------------------------------------------------------- send-whatsapp function

\* The request bodies tried.  A body is what JSON.parse makes of it: text that is
\* no JSON, the JSON value null, or an object whose `to` and `message` are absent,
\* a non-empty string or a number.  An absent or empty body is parsed as "{}".
RequestBodies ==
  { [ json |-> FALSE, isNull |-> FALSE, to |-> "absent", message |-> "absent" ],
    [ json |-> TRUE, isNull |-> TRUE, to |-> "absent", message |-> "absent" ] }
  \cup [ json : {TRUE}, isNull : {FALSE},
         to : {"absent", "string", "number"}, message : {"absent", "string"} ]

Answer(status, called) == [ raised |-> FALSE, status |-> status, called |-> called ]

\* export const handler = async (event) => { ... }
handler(version, method, credentials, body, providerOk) ==
  IF method # "POST" THEN Answer(405, FALSE)
  ELSE IF ~credentials THEN Answer(500, FALSE)
  ELSE IF ~body.json THEN Answer(400, FALSE)
  ELSE IF body.isNull
       \* const { to, message } = payload; with payload null: a TypeError outside
       \* every try block
       THEN [ raised |-> TRUE, status |-> 0, called |-> FALSE ]
  ELSE IF body.to = "absent" \/ body.message = "absent" THEN Answer(400, FALSE)
  ELSE IF version = "twilio" /\ body.to # "string"
       \* to.startsWith is not a function: thrown and caught inside the try block
       THEN Answer(500, FALSE)
  ELSE IF providerOk THEN Answer(200, TRUE)
  ELSE Answer(500, TRUE)

\* one request to the function
HandleRequest ==
  /\ cfg.handler # "none"
  /\ \E method \in {"GET", "POST"}, credentials \in BOOLEAN,
        body \in RequestBodies, providerOk \in BOOLEAN :
       http' = [ handled |-> TRUE,
                 method |-> method,
                 credentials |-> credentials,
                 body |-> body,
                 providerOk |-> providerOk,
                 answer |-> handler(cfg.handler, method, credentials, body, providerOk) ]
  /\ UNCHANGED << cfg, addr, profiles, store, clock, batchVars, appVars >>

Next ==
  \/ Tick
  \/ StartRun
  \/ FetchPage
  \/ EvaluateMed
  \/ EndPage
  \/ BudgetElapses
  \/ AppTick
  \/ AppEffect
  \/ AppRegisterDose
  \/ AppToggleAlert
  \/ AppToggleWhatsapp
  \/ CloudWrite
  \/ HandleRequest

Spec == Init /\ [][Next]_vars

\* normalizePhone on its own: an address goes through it, and its result goes
\* through it again
PhoneInit ==
  /\ Deployment
  /\ cfg.handler = "twilio"
  /\ addr \in { [ applied |-> 0, input |-> x, value |-> x, once |-> x ] : x \in Addresses }

NormalizeAddress ==
  /\ addr.applied < MaxApplications
  /\ addr' = [ addr EXCEPT !.applied = @ + 1,
                             !.value = normalizePhone(@),
                             !.once = IF addr.applied = 0 THEN normalizePhone(addr.value)
                                      ELSE @ ]
  /\ UNCHANGED << cfg, http, profiles, store, clock, batchVars, appVars >>

PhoneNext == NormalizeAddress

PhoneSpec == PhoneInit /\ [][PhoneNext]_vars

\* An invocation in which every storage and messaging call returns goes on to its
\* next step: the loop head and the page fetch, the next medication of the page,
\* the end of the page.
\* EvaluateMed is enabled exactly when a row of the page is left to evaluate; its
\* weak fairness is written out with that condition.
LiveSpec ==
  /\ Init
  /\ [][Next]_vars
  /\ WF_vars(FetchPage)
  /\ WF_vars(EndPage)
  /\ ([]<>(~EvaluateMedEnabled) \/ []<><<EvaluateMed>>_vars)

\* ---------------------------------------------------------------- properties

\* the time zone the batch runner evaluates a row in
OwnerZone(med) == ProfileTimeZone(profiles[med.user_id])

\* seconds since local midnight, and the minute of the local day, at an instant
LocalSecondOfDay(now, tz) == (now + TzOffsetMinutes(tz) * 60) % 86400

LocalMinuteOfDay(now, tz) == LocalSecondOfDay(now, tz) \div 60

Elems(seq) == { seq[i] : i \in 1..Len(seq) }

\* the HH:MM schedule times of a stored row whose minute-of-day difference is in
\* the window
TimesInMinuteWindow(med, now) ==
  { t \in { s \in { IF IsObject(e) THEN <<e[1], e[2]>> ELSE e :
                      e \in Elems(med.schedule_times) } : Len(s) = 2 } :
      LET d == LocalMinuteOfDay(now, OwnerZone(med)) - (t[1] * 60 + t[2])
      IN 0 <= d /\ d <= ALERT_WINDOW_MINUTES }

\* the <<med, entry>> positions of the app's list, of enabled medications
AppEntries(ms) ==
  { p \in (1..Len(ms)) \X (1..2) :
      p[2] <= Len(ms[p[1]].scheduleTimes) /\ ms[p[1]].alertsEnabled }

\* C1: Idempotence of the batch evaluator.  When a medication is evaluated, its
\* update persisted, and it is evaluated again with the identical now on the
\* persisted row, the second evaluation attempts no send (dose reminder or
\* low-stock) and deducts no stock.
C1_SecondRunIsSilent ==
  ( /\ last.run # 0
    /\ last.prev.run # 0
    /\ last.prev.clean
    /\ last.prev.now = last.now
    /\ last.rowBefore = last.prev.rowAfter )
  => (last.attempts = 0 /\ last.deducted = << >>)

\* C2: Across successful batch invocations (no send, fetch or update failed, no
\* budget ran out) every usable address of the owner has received the dose
\* reminder of every occurrence found due exactly once: not twice, not zero times.
C2_ExactlyOncePerRecipient ==
  (last.run # 0 /\ faults = 0 /\ timeouts = 0 /\ ~cfg.appOpen) =>
    LET phones == UsablePhones(profiles[last.rowBefore.user_id]) IN
    \A key \in Elems(last.due) : \A phone \in Elems(phones) :
      Count(delivered, <<last.med, "dose", key, phone>>) = 1

\* C3: Across batch invocations the stock is decremented at most once for an
\* occurrence key, and last_auto_dose_key is advanced to an occurrence key at
\* most once.
C3_OneDeductionPerKey ==
  ~cfg.appOpen =>
    /\ \A e \in DOMAIN deducts : deducts[e] <= 1
    /\ \A e \in DOMAIN advances : advances[e] <= 1

C5_OneLowStockPerLocalDay ==
  \A e \in DOMAIN lowEmitted : lowEmitted[e] <= 1

\* C6: the stock of every medication is >= 0 in every reachable state (stored
\* rows, the app's list, writes in flight), and a deduction larger than the
\* remaining stock leaves exactly 0.
C6_StockNeverNegative ==
  /\ \A m \in DOMAIN store : store[m].stock >= 0
  /\ \A i \in 1..Len(meds) : meds[i].stock >= 0
  /\ \A i \in 1..Len(writes) : writes[i].row.stock >= 0
  /\ (last.run # 0 /\ last.persisted /\ Len(last.deducted) > 0
        /\ last.rowBefore.stock < last.deducted[1][2])
       => last.rowAfter.stock = 0
  /\ appLast.pass =>
       \A i \in 1..Len(appLast.before) :
         (Len(appLast.autoKeys[i]) > 0
            /\ appLast.before[i].stock < appLast.before[i].doseAmount)
         => appLast.autoMeds[i].stock = 0

\* a persisted batch deduction of 2 from a stock of 1 left 0
C6_Witness_Clamped ==
  /\ last.run # 0 /\ last.persisted
  /\ Len(last.deducted) > 0
  /\ last.rowBefore.stock > 0
  /\ last.rowBefore.stock < last.deducted[1][2]
  /\ store[last.med].stock = 0

\* C7: reminder dedup and deduction dedup are independent.  For a medication with
\* one due occurrence in an evaluation, the reminder is emitted iff the key
\* differs from the last-reminder key, and the deduction happens iff auto-deduct
\* is on and the key differs from the last-auto-dose key - in the batch runner and
\* in the in-app evaluator (computeAlerts + applyAutoDoses).
C7_IndependentDedup ==
  /\ (last.run # 0 /\ ~last.thrown /\ Len(last.due) = 1) =>
       LET key == last.due[1]
           med == last.rowBefore
       IN /\ (key \in Elems(last.reminded)) <=> (key # med.last_whatsapp_alert_key)
          /\ (\E d \in Elems(last.deducted) : d[1] = key)
               <=> (med.auto_deduct /\ key # med.last_auto_dose_key)
  /\ appLast.pass =>
       \A i \in 1..Len(appLast.before) :
         LET med == appLast.before[i]
             dues == { p \in appLast.windowDue : p[1] = i }
         IN Cardinality(dues) = 1 =>
              LET p == CHOOSE q \in dues : TRUE
                  key == buildAlertKey(getTodayString(appLast.now), med.scheduleTimes[p[2]])
              IN /\ (\E a \in Elems(appLast.alerts) : a.medId = med.id /\ a.alertKey = key)
                      <=> (key # med.lastAlertKey)
                 /\ (key \in Elems(appLast.autoKeys[i]))
                      <=> (med.autoDeduct /\ key # med.lastAutoDoseKey)

\* C8: in one batch invocation the number of send attempts never exceeds
\* MAX_SENDS_PER_RUN.
C8_SendsWithinCap == run.attempts <= MAX_SENDS_PER_RUN

\* C9: a step of a batch run changes no stored row but the one it is evaluating;
\* so the rows a run left unevaluated when it stopped on the send cap or the time
\* budget are stored unchanged, and the next run evaluates them from that state
\* (when it comes to them the first time).
C9_SkippedKeepState ==
  [][ /\ (run' # run /\ run.pc = "evaluating" /\ run.idx <= Len(run.page)) =>
           /\ \A m \in DOMAIN store :
                store'[m] # store[m] => m = run.page[run.idx].id
           /\ skipped' # skipped =>
                \A m \in DOMAIN skipped'.rows :
                  store'[m] = store[m] /\ skipped'.rows[m] = store'[m]
      /\ (run' # run /\ ~(run.pc = "evaluating" /\ run.idx <= Len(run.page))) =>
           store' = store
      /\ (last' # last /\ ~cfg.appOpen /\ last'.run = skipped.run + 1
            /\ last'.prev.run # last'.run
            /\ last'.med \in DOMAIN skipped.rows) =>
           last'.rowBefore = skipped.rows[last'.med]
    ]_vars

\* a run stopped on the send cap before m2, and the next run evaluated m2
C9_Witness_Resumed ==
  /\ skipped.stop = "cap"
  /\ "m2" \in DOMAIN skipped.rows
  /\ last.run = skipped.run + 1
  /\ last.med = "m2"
  /\ last.rowBefore = skipped.rows["m2"]

\* C10: a failed send does not terminate the invocation.
C10_FailedSendIsContained ==
  ~(run.pc = "failed" /\ run.stop = "send")

\* C11: when a batch invocation failed while handling a medication (a send or the
\* update failed) and the next invocation handled it without failure, every usable
\* address of the owner has received the dose reminder of the occurrence found due
\* exactly once.
C11_RetryDeliversExactlyOnce ==
  ( /\ last.run # 0
    /\ last.prev.run # 0
    /\ ~last.prev.clean
    /\ hist[last.med].run = last.run
    /\ hist[last.med].clean
    /\ timeouts = 0
    /\ ~cfg.appOpen
    /\ Len(last.rowBefore.schedule_times) = 1 ) =>
    LET phones == UsablePhones(profiles[last.rowBefore.user_id]) IN
    \A key \in Elems(last.due) : \A phone \in Elems(phones) :
      Count(delivered, <<last.med, "dose", key, phone>>) = 1

\* C17: a failed page fetch or a failed medication update ends the invocation,
\* which is reported as a failure: while the invocation whose update failed is
\* the current one it is in the failed state, and so is one whose fetch failed.
C17_FailedWriteAborts ==
  /\ (last.run # 0 /\ last.run = runs /\ last.updateFailed) => run.pc = "failed"
  /\ run.stop = "fetch" => run.pc = "failed"

\* C20: a client write that reaches the store changes only the columns its
\* operation modified: every other column of the row, the dedup keys, stock and
\* last_taken written by the batch runner among them, keeps its stored value.
C20_WritesOnlyModifiedColumns ==
  [][ (Len(writes) > 0 /\ writes' = Tail(writes)) =>
        LET w == Head(writes) IN
        \A f \in DOMAIN store[w.id] \ w.cols : store'[w.id][f] = store[w.id][f]
    ]_vars

\* C16: the date part of every occurrence key and of every low-stock daily key is
\* the calendar date of now in the owner's time zone, in the batch runner and in
\* the in-app computeAlerts and computeWhatsappQueue.
C16_KeysCarryOwnerLocalDate ==
  /\ (last.run # 0 /\ ~last.thrown) =>
       \A k \in Elems(last.due) :
         k[1] = getZonedParts(last.now, OwnerZone(last.rowBefore)).dateString
  /\ appLast.pass =>
       LET localDate == getZonedParts(appLast.now, BrowserTimeZone).dateString IN
       /\ \A a \in Elems(appLast.alerts) : a.alertKey[1] = localDate
       /\ \A q \in Elems(appLast.queue) : q[2] = "low" => q[3] = localDate

\* C18: a schedule entry whose time does not parse as HH:MM produces no reminder
\* and no deduction: no occurrence found due, and none deducted for, by a batch
\* evaluation belongs to such an entry.
C18_MalformedEntryIsInert ==
  (last.run # 0) =>
    /\ \A k \in Elems(last.due) : ~MinutesIsNaN(k[2])
    /\ \A d \in Elems(last.deducted) : ~MinutesIsNaN(d[1][2])

\* C19: a timezone value that is no valid IANA identifier does not abort the
\* invocation: no invocation ends in failure on evaluating the time zone of a
\* profile.
C19_InvalidZoneDoesNotAbort ==
  ~(run.pc = "failed" /\ run.stop = "timezone")

\* C12: whether the in-app evaluator queues the outbound dose reminder of a due
\* occurrence depends only on lastWhatsappAlertKey: in a pass that computes the
\* outbound queue, every schedule entry inside the window whose occurrence key
\* differs from the stored lastWhatsappAlertKey is queued, whatever lastAlertKey is.
C12_OutboundIgnoresInAppKey ==
  (appLast.pass /\ appLast.outbound) =>
    \A p \in appLast.windowDue :
      LET med == appLast.before[p[1]]
          key == buildAlertKey(getTodayString(appLast.now), med.scheduleTimes[p[2]])
      IN key # med.lastWhatsappAlertKey =>
           <<med.id, "dose", key>> \in Elems(appLast.queue)

\* date and occurrence key of the scenarios: 1 March, 08:00
ScenarioDate == <<2024, 3, 1>>

ScenarioKey == buildAlertKey(ScenarioDate, <<8, 0>>)

\* the step is a batch evaluation of m1 at instant now, without a failed send or
\* update, of the row `row`
CleanEvaluation(row, now) ==
  /\ last' # last
  /\ last'.med = "m1"
  /\ last'.now = now
  /\ last'.rowBefore = row
  /\ hist'["m1"].run = last'.run
  /\ hist'["m1"].clean

\* C13 (Scenario A): schedule ["08:00"], dose 1, stock 5, threshold 5, auto-deduct
\* off, empty dedup fields, one address.  A batch invocation at 08:03 local sends
\* exactly one dose reminder and exactly one low-stock message, and the stored
\* stock remains 5.
C13_ScenarioA ==
  [][ CleanEvaluation(ScenarioMed(FALSE), At(1, 11, 3, 0)) =>
        /\ delivered' = BagAdd(BagAdd(delivered, <<"m1", "dose", ScenarioKey, "p4">>),
                               <<"m1", "low", ScenarioDate, "p4">>)
        /\ store'["m1"].stock = 5
    ]_vars

\* the 08:03 invocation has evaluated the Scenario A medication
C13_Witness_ScenarioA ==
  /\ last.run # 0
  /\ last.med = "m1"
  /\ last.now = At(1, 11, 3, 0)
  /\ last.rowBefore = ScenarioMed(FALSE)
  /\ hist["m1"].run = last.run /\ hist["m1"].clean
  /\ Count(delivered, <<"m1", "dose", ScenarioKey, "p4">>) = 1
  /\ Count(delivered, <<"m1", "low", ScenarioDate, "p4">>) = 1
  /\ store["m1"].stock = 5

\* C14 (Scenario B): the Scenario A medication with auto-deduct on.  After the
\* invocation at 08:03 local the stored stock is 4 and last_taken is set; a second
\* invocation at 08:07 of the same day sends no message and leaves the stock and
\* the dedup fields as they were.
C14_ScenarioB ==
  [][ /\ CleanEvaluation(ScenarioMed(TRUE), At(1, 11, 3, 0)) =>
           /\ store'["m1"].stock = 4
           /\ store'["m1"].last_taken # Null
      /\ ( /\ CleanEvaluation(store["m1"], At(1, 11, 7, 0))
           /\ store["m1"].user_id = "u3" /\ store["m1"].auto_deduct
           /\ last'.prev.run # 0
           /\ last'.prev.clean
           /\ last'.prev.now = At(1, 11, 3, 0)
           /\ last'.prev.rowAfter = store["m1"] ) =>
           /\ delivered' = delivered
           /\ last'.attempts = 0
           /\ store' = store
    ]_vars

\* the 08:07 invocation has evaluated the Scenario B medication, which the 08:03
\* invocation left with stock 4
C14_Witness_ScenarioB ==
  /\ last.run # 0
  /\ last.med = "m1"
  /\ last.now = At(1, 11, 7, 0)
  /\ last.rowBefore.user_id = "u3" /\ last.rowBefore.auto_deduct
  /\ last.prev.run # 0 /\ last.prev.clean /\ last.prev.now = At(1, 11, 3, 0)
  /\ last.rowBefore = last.prev.rowAfter
  /\ last.rowBefore.stock = 4
  /\ last.rowBefore.last_taken # Null
  /\ last.attempts = 0
  /\ store["m1"] = last.rowBefore

\* C15: for a fixed schedule entry the occurrence key is constant throughout one
\* local calendar day: the keys the in-app evaluator built for one scheduled time
\* of a medication on one local date are all the same key, and every key the batch
\* runner builds is the pair of the owner's local date and the scheduled time.
C15_KeyConstantThroughLocalDay ==
  /\ \A e1 \in DOMAIN notified : \A e2 \in DOMAIN notified :
       (e1[1] = e2[1] /\ e1[2][2] = e2[2][2] /\ e1[3] = e2[3]) => e1[2] = e2[2]
  /\ (last.run # 0 /\ ~last.thrown) =>
       \A i \in 1..Len(last.due) :
         \E t \in Elems(last.rowBefore.schedule_times) :
           last.due[i] = buildAlertKey(
                           getZonedParts(last.now, OwnerZone(last.rowBefore)).dateString, t)

\* C22: when a required storage or messaging credential is missing, the batch job
\* fetches no medication page, sends no message and writes no update, and every
\* invocation ends in failure before it does anything.
C22_MissingCredentialsStopTheJob ==
  ~cfg.configured =>
    /\ run.pc \in {"idle", "failed"}
    /\ run.pc = "failed" => run.stop = "config"
    /\ run.page = <<>> /\ run.attempts = 0
    /\ delivered = << >>
    /\ last = NoEval
    /\ store = StoreWith(M1Shared)

\* an invocation was started without credentials and has failed
C22_Witness_Unconfigured ==
  /\ ~cfg.configured
  /\ runs > 0
  /\ run.pc = "failed" /\ run.stop = "config"

\* C21: the send-whatsapp handler never raises and answers every request with one
\* status: 405 for a method other than POST, 500 when the credentials are missing,
\* 400 when the body is no JSON or lacks `to` or `message`, 500 when the provider
\* call fails, 200 on success; the provider is called only when the method, the
\* credentials and the payload passed their checks.
C21_HandlerAlwaysAnswers ==
  http.handled =>
    LET a == http.answer
        lacks == http.body.isNull \/ http.body.to = "absent"
                 \/ http.body.message = "absent"
    IN /\ ~a.raised
       /\ a.status = IF http.method # "POST" THEN 405
                     ELSE IF ~http.credentials THEN 500
                     ELSE IF ~http.body.json \/ lacks THEN 400
                     ELSE IF a.called /\ http.providerOk THEN 200
                     ELSE 500
       /\ a.called =>
            (http.method = "POST" /\ http.credentials /\ http.body.json /\ ~lacks)

\* C23: after the due times of a medication have been processed, the batch runner
\* emits the low-stock notification iff the stock, the deductions of this same
\* pass included, is at most the threshold and the last low-stock date differs
\* from today's local date; when it emits it, the low-stock date becomes today.
C23_LowStockAfterDeductions ==
  ( /\ last.run # 0
    /\ ~last.thrown
    /\ last.persisted
    /\ hist[last.med].run = last.run
    /\ hist[last.med].clean ) =>
    LET today == getZonedParts(last.now, OwnerZone(last.rowBefore)).dateString
    IN /\ last.low <=>
            ( /\ last.rowAfter.stock <= last.rowBefore.low_threshold
              /\ last.rowBefore.last_low_stock_whatsapp_date # today )
       /\ last.low => last.rowAfter.last_low_stock_whatsapp_date = today

\* how many elements of a sequence equal e
Occurrences(seq, e) == Cardinality({ i \in 1..Len(seq) : seq[i] = e })

\* C24: within one evaluation of a medication by the batch runner an occurrence
\* key triggers at most one dose reminder and at most one auto-deduction, also
\* when the schedule lists a time twice; and every due key that differs from the
\* stored last key triggers its reminder exactly once.
C24_OncePerKeyWithinPass ==
  (last.run # 0 /\ ~last.thrown) =>
    /\ \A k \in Elems(last.reminded) : Occurrences(last.reminded, k) = 1
    /\ \A d \in Elems(last.deducted) :
         Cardinality({ i \in 1..Len(last.deducted) : last.deducted[i][1] = d[1] }) = 1
    /\ \A k \in Elems(last.due) :
         k # last.rowBefore.last_whatsapp_alert_key => Occurrences(last.reminded, k) = 1

\* C25: the batch runner advances last_whatsapp_alert_key to an occurrence key
\* only when the reminder of that occurrence was delivered to every usable
\* address of the owner.
C25_KeyAdvancesOnFullDelivery ==
  ( /\ last.run # 0
    /\ last.persisted
    /\ last.rowAfter.last_whatsapp_alert_key # last.rowBefore.last_whatsapp_alert_key ) =>
    \A phone \in Elems(UsablePhones(profiles[last.rowBefore.user_id])) :
      Count(delivered, <<last.med, "dose", last.rowAfter.last_whatsapp_alert_key, phone>>) >= 1

\* the owner's profile is missing, the owner has the channel disabled or has no
\* non-blank address, or the schedule is empty
MustBeSkipped(med) ==
  IF med.user_id \notin DOMAIN profiles THEN TRUE
  ELSE \/ ~profiles[med.user_id].whatsapp_enabled
       \/ \A i \in 1..Len(profiles[med.user_id].phone_numbers) :
            profiles[med.user_id].phone_numbers[i] \in {"", " "}
       \/ med.schedule_times = << >>

\* C26: a medication whose owner profile is missing, whose owner has the channel
\* disabled or no non-blank address, or whose schedule is empty is skipped: the
\* step of the invocation that handles it sends no message, low-stock included,
\* and writes no update.
C26_SkippedMedIsUntouched ==
  [][ ( /\ run.pc = "evaluating"
        /\ run.idx <= Len(run.page)
        /\ run' # run
        /\ MustBeSkipped(run.page[run.idx]) ) =>
        /\ delivered' = delivered
        /\ lowEmitted' = lowEmitted
        /\ store' = store
        /\ last' = last
    ]_vars

\* the invocation has passed m1, whose stock is under the threshold, without
\* evaluating it
C26_Witness_Skipped ==
  /\ run.pc = "evaluating"
  /\ run.idx = 2
  /\ run.page[1].id = "m1"
  /\ MustBeSkipped(run.page[1])
  /\ run.page[1].stock <= run.page[1].low_threshold
  /\ hist["m1"].run = 0
  /\ store["m1"] = run.page[1]
  /\ \A e \in DOMAIN delivered : e[1] # "m1"

\* C27: in every variant of the batch runner no medication is evaluated once the
\* time budget of the invocation is exhausted or the send cap is reached: both
\* are checked before each medication.
C27_BudgetsCheckedBeforeEachMed ==
  last.run # 0 =>
    /\ ~last.overtime
    /\ last.sentBefore < MAX_SENDS_PER_RUN

\* C28: the batch runner fetches the pages at offsets 0, PAGE_SIZE, 2*PAGE_SIZE,
\* ... in increasing order: an invocation starts at offset 0 and the offset only
\* grows, by PAGE_SIZE, after a full page has been worked through; after an empty
\* page or a page of fewer than PAGE_SIZE rows the invocation fetches no further
\* page; after a full page it turns to the next page.
C28_PagesInOrder ==
  [][ /\ run'.offset # run.offset =>
           \/ run.pc \in {"idle", "done", "failed"} /\ run'.offset = 0
           \/ /\ run.pc = "evaluating"
              /\ Len(run.page) = PAGE_SIZE
              /\ run'.offset = run.offset + PAGE_SIZE
      /\ (run.pc = "paging" /\ run'.pc = "evaluating") =>
           /\ run'.page = fetchMedsPage(run.offset)
           /\ run'.offset = run.offset
           /\ run.offset % PAGE_SIZE = 0
      /\ (run.pc = "evaluating" /\ Len(run.page) < PAGE_SIZE) => run'.pc # "paging"
      /\ (run.pc = "paging" /\ run' # run /\ run'.pc # "evaluating") =>
           run'.pc \in {"done", "failed"}
      /\ ( /\ run.pc = "evaluating"
           /\ run.idx > Len(run.page)
           /\ Len(run.page) = PAGE_SIZE
           /\ run' # run ) =>
           (run'.pc = "paging" /\ run'.offset = run.offset + PAGE_SIZE)
    ]_vars

\* the second page, a short one, has been fetched and worked through, and the
\* invocation has ended
C28_Witness_SecondPage ==
  /\ run.pc = "done"
  /\ run.stop = "end"
  /\ run.offset = PAGE_SIZE
  /\ Len(run.page) = 1
  /\ run.idx > Len(run.page)

\* C29: a medication the pass has computed a change for (a reminder key taken
\* over, a deduction with its stock and last-taken) has its update in the store
\* when the step that evaluated it is over, that is after its sends and before
\* the next medication is evaluated; and an update is written only for a
\* medication for which something changed.
C29_ChangesWrittenBeforeNextMed ==
  last.run # 0 =>
    /\ (Len(last.reminded) > 0 \/ Len(last.deducted) > 0) => last.persisted
    /\ last.persisted =>
         (Len(last.reminded) > 0 \/ Len(last.deducted) > 0 \/ last.low)

\* the columns the evaluation summarised in s changed: the reminder key when a
\* reminder was emitted, the auto-dose key, stock and last-taken when a deduction
\* was made, the low-stock date when a low-stock notification was emitted
EvaluatorChanged(s) ==
  (IF Len(s.reminded) > 0 THEN {"last_whatsapp_alert_key"} ELSE {})
  \cup (IF Len(s.deducted) > 0
        THEN {"last_auto_dose_key", "stock", "last_taken"} ELSE {})
  \cup (IF s.low THEN {"last_low_stock_whatsapp_date"} ELSE {})

\* C30: the batch runner's update of a medication changes the stored value of no
\* column the evaluator did not change in this pass: stock and last-taken change
\* only with an auto-deduction of this pass, the low-stock date only with a
\* low-stock notification of this pass, and every other column (name, schedule,
\* thresholds, flags) keeps its stored value; no other row is touched.
C30_UpdateTouchesOnlyChangedColumns ==
  [][ (last' # last /\ last'.persisted) =>
        /\ \A f \in DOMAIN store[last'.med] \ EvaluatorChanged(last') :
             store'[last'.med][f] = store[last'.med][f]
        /\ \A m \in DOMAIN store \ {last'.med} : store'[m] = store[m]
    ]_vars

\* C31: a schedule entry is accepted whether it is a time string or an object,
\* and the amount deducted for a due entry is the entry's own pills when it has
\* them and the medication's dose_amount otherwise, in every variant.
C31_PerTimeDoseAmount ==
  last.run # 0 =>
    /\ ~last.typeError
    /\ \A d \in Elems(last.deducted) :
         \E e \in Elems(last.rowBefore.schedule_times) :
           IF IsObject(e)
           THEN d[1][2] = <<e[1], e[2]>> /\ d[2] = e[3]
           ELSE d[1][2] = e /\ d[2] = last.rowBefore.dose_amount

\* C32: a medication with alerts disabled or with an empty schedule gets no dose
\* reminder and no auto-deduction from any evaluator: the page the batch runner
\* fetches holds no alerts-disabled row and an evaluated row without schedule has
\* nothing reminded or deducted, and a pass of the in-app evaluation
\* (computeAlerts, applyAutoDoses, computeWhatsappQueue) leaves such a medication
\* as it was.
C32_DisabledOrUnscheduledIsInert ==
  [][ /\ \A i \in 1..Len(run'.page) : run'.page[i].alerts_enabled
      /\ (last' # last /\ Len(last'.rowBefore.schedule_times) = 0) =>
           (Len(last'.reminded) = 0 /\ Len(last'.deducted) = 0)
      /\ appLast' # appLast =>
           \A i \in 1..Len(meds) :
             (~meds[i].alertsEnabled \/ Len(meds[i].scheduleTimes) = 0) =>
               meds'[i] = meds[i]
    ]_vars

\* C33: every batch invocation terminates: once started it reaches the end of
\* its last page or stops on a budget or an error; its offsets only grow, so
\* that no offset is fetched twice in one invocation.
C33_InvocationTerminates ==
  /\ (run.pc \in {"paging", "evaluating"}) ~> (run.pc \in {"done", "failed"})
  /\ [][ (run'.pc = "paging" /\ run.pc # "paging") =>
            \/ run.pc = "idle" /\ run'.offset = 0
            \/ run.pc \in {"done", "failed"} /\ run'.offset = 0 /\ runs' = runs + 1
            \/ run.pc = "evaluating" /\ run'.offset > run.offset /\ runs' = runs
      ]_vars

\* an invocation that fetched two pages has ended
C33_Witness_TwoPagesDone ==
  /\ run.pc = "done"
  /\ run.offset = PAGE_SIZE
  /\ last.run = runs
  /\ last.med = "m3"

\* C34: the passes the evaluation effect makes at one tick settle: no occurrence
\* that one pass notified or deducted is notified or deducted again by the next
\* pass at the same tick, whatever the medication list (two entries due in the
\* same window and auto-deduct on included).
C34_EffectSettles ==
  [][ ( /\ appLast.pass /\ appLast'.pass
        /\ appLast'.now = appLast.now
        /\ tick' = tick /\ userOps' = userOps /\ store' = store /\ cfg' = cfg
        /\ (appLast' # appLast \/ meds' # meds \/ notified' # notified) ) =>
        /\ \A a \in Elems(appLast.alerts) : \A b \in Elems(appLast'.alerts) :
             ~(a.medId = b.medId /\ a.alertKey = b.alertKey)
        /\ \A i \in 1..Len(meds) :
             Elems(appLast.autoKeys[i]) \cap Elems(appLast'.autoKeys[i]) = {}
    ]_vars

\* C35: a pass of the in-app evaluation in which a medication with auto-deduct on
\* has one newly due occurrence commits that medication with its stock reduced by
\* the dose amount (not below 0), last-taken set to the time of the pass and the
\* last-auto-dose key set to the occurrence, with local WhatsApp delivery on or
\* off.
C35_AutoDeductionIsCommitted ==
  appLast.pass =>
    \A i \in 1..Len(appLast.before) :
      LET b == appLast.before[i]
          a == appLast.after[i]
          mine == SelectSeq(appLast.alerts, LAMBDA x : x.medId = b.id)
      IN (b.autoDeduct /\ Len(mine) = 1 /\ mine[1].alertKey # b.lastAutoDoseKey) =>
           /\ a.stock = Max(0, b.stock - b.doseAmount)
           /\ a.lastTaken = << appLast.now >>
           /\ a.lastAutoDoseKey = mine[1].alertKey

\* C36: for an auto-deduct medication kept in the cloud the in-app evaluator and
\* the batch runner compute the same key for the same occurrence (the same
\* scheduled time on the same day of the owner), and the batch runner makes no
\* deduction for an occurrence from a row that already carries the app's
\* deduction for it.
C36_SameKeyInAppAndBatch ==
  (last.run # 0 /\ appLast.pass /\ cfg.cloudEnabled /\ last.med = appLast.before[1].id) =>
    LET dBatch == getZonedParts(last.now, OwnerZone(last.rowBefore)).dateString
        dApp == getZonedParts(appLast.now, BrowserTimeZone).dateString
    IN dBatch = dApp =>
         /\ \A k \in Elems(last.due) : \A a \in Elems(appLast.alerts) :
              (a.medId = last.med /\ a.alertKey[2] = k[2]) => a.alertKey = k
         /\ \A d \in Elems(last.deducted) :
              ~ ( /\ last.rowBefore.last_auto_dose_key \in Elems(appLast.autoKeys[1])
                  /\ last.rowBefore.last_auto_dose_key[2] = d[1][2] )

\* C37: within one invocation of the batch runner a medication that is seen
\* again, because the pages shifted between two fetches, is not reminded again:
\* no recipient to whom the invocation has sent the reminder of an occurrence
\* receives that reminder a second time.
C37_NoRepeatWhenPagesShift ==
  [][ ( /\ last.run # 0
        /\ last.run = runs
        /\ last' # last
        /\ last'.run = runs
        /\ last'.med = last.med ) =>
        \A e \in DOMAIN delivered' :
          (e[2] = "dose" /\ e[3] \in Elems(last.reminded) /\ e \in DOMAIN delivered) =>
            delivered'[e] = delivered[e]
    ]_vars

\* C38: the matching window of the batch runner does not wrap over local
\* midnight: an entry whose time of day is later than the local time of the
\* evaluation is not due, so an entry at 23:55 is due until 23:59 and at no
\* evaluation after midnight.
C38_WindowDoesNotWrap ==
  last.run # 0 =>
    LET nowMinutes == LocalMinuteOfDay(last.now, OwnerZone(last.rowBefore))
    IN \A t \in Elems(last.rowBefore.schedule_times) :
         (Len(t) = 2 /\ toMinutes(t) > nowMinutes) =>
           \A k \in Elems(last.due) : k[2] # t

\* the 23:55 entry was due and reminded at 23:58 and is evaluated again at 00:01
C38_Witness_AfterMidnight ==
  /\ last.run # 0
  /\ last.rowBefore.schedule_times = << <<23, 55>> >>
  /\ last.now = At(2, 0, 1, 0)
  /\ last.due = << >>
  /\ last.rowBefore.last_whatsapp_alert_key = << <<2024, 3, 1>>, <<23, 55>> >>

\* C39: in the edge runner every message of an evaluation is sent once to each
\* address of the owner, the send counter grows by exactly the number of sends
\* that succeeded, and a send that is rejected neither ends the evaluation nor
\* the invocation.
C39_BatchCountsFulfilled ==
  [][ (cfg.variant = "edge" /\ last' # last) =>
        LET phones == UsablePhones(profiles[last'.rowBefore.user_id])
            messages == Len(last'.reminded) + (IF last'.low THEN 1 ELSE 0)
            rejected == (faults' - faults) - (IF last'.updateFailed THEN 1 ELSE 0)
        IN /\ last'.attempts = messages * Len(phones)
           /\ run'.sentCount - run.sentCount = last'.attempts - rejected
           /\ ~last'.thrown
           /\ run'.pc # "failed"
    ]_vars

\* the edge runner has sent a message to the two addresses of u1; one of the two
\* sends was rejected and the evaluation went on to the next medication
C39_Witness_OneRejected ==
  /\ cfg.variant = "edge"
  /\ last.run # 0
  /\ last.run = runs
  /\ last.med = "m1"
  /\ last.attempts = 2
  /\ ~last.updateFailed
  /\ faults = 1
  /\ run.pc = "evaluating"
  /\ run.idx = 2
  /\ run.sentCount = last.sentBefore + 1

\* C40: normalizePhone yields an address that starts with "whatsapp:", and
\* applying it to its own result changes nothing.
C40_NormalizePhoneIdempotent ==
  /\ addr.applied >= 1 => StartsWith(addr.value, ChannelPrefix)
  /\ addr.applied >= 2 => addr.value = addr.once

\* an address stored without the prefix has gone through normalizePhone twice
C40_Witness_PrefixedOnce ==
  /\ addr.applied = 2
  /\ addr.input = <<"+", "5", "5">>
  /\ addr.value = <<"whatsapp", ":", "+", "5", "5">>

====
